---- MODULE Spec2Model ----
(***************************************************************************)
(* The AetherSwarm verifier agent (agents/verifier): the channel session   *)
(* of VerifierAgent::run, the dispatch of VerifierAgent::handle_task, the  *)
(* verification pipeline of VerifierAgent::verify_in_tee and the           *)
(* attestation provider EigenCompute::execute_verification.                *)
(*                                                                         *)
(* Strings are sequences of atoms.  An atom is a record [c, h, lo, hi]:    *)
(* a piece of literal text c (h empty, lo = hi = 0), or the characters     *)
(* lo..hi of the hex rendering of the BLAKE3 digest of the byte stream h   *)
(* (c = "blake3").  The hash is modelled as injective on its input byte    *)
(* stream, and a hex digest has a fixed length, so it is one atom.         *)
(***************************************************************************)
EXTENDS Integers, Sequences, FiniteSets, TLC

VARIABLES
    dev_mode,      \* EigenCompute.dev_mode, fixed at construction
    pc,            \* position of run(): connect, register, read, attest, write, done
    ret,           \* value returned by run(): "none" while running, "Ok", "Err"
    nread,         \* number of frames read.next() has delivered
    msg,           \* the frame the loop body is handling (NoFrame between iterations),
                   \* and the frame that broke the loop once run() has returned
    dropped,       \* the text handle_task returned None for in the previous iteration
    tee,           \* locals of verify_in_tee that live across the attestation await
    pipe,          \* position of the current pipeline run (verify_in_tee)
    request,       \* the attestation request in flight (Option)
    reply,         \* how the HTTP exchange of the current run ended (Option)
    attest_calls,  \* number of execute_verification calls made so far
    response,      \* the Option<String> handle_task returned, until it is written
    wire           \* what write.send has put on the channel, in order

vars == <<dev_mode, pc, ret, nread, msg, dropped, tee, pipe, request, reply, attest_calls, response, wire>>

-----------------------------------------------------------------------------
(* Bounds of the model *)

\* longest chunk list of a task in the session specification
MaxChunks == 2
\* number of text and other frames a session reads before the peer stops sending
MaxReads == 2
\* largest value the clock (SystemTime::now, in seconds) shows
MaxTime == 1
\* longest chunk list of a task in the single-task specification
MaxBulk == 100

-----------------------------------------------------------------------------
(* Option, strings, hashing *)

None == [some |-> FALSE]

Some(x) == [some |-> TRUE, v |-> x]

\* the literal text w as a string
Str(w) == <<[c |-> w, h |-> <<>>, lo |-> 0, hi |-> 0]>>

\* number of characters of a BLAKE3 digest rendered by to_hex()
HexLen == 64

\* blake3::hash(bytes).to_hex().to_string()
Blake3Hex(bytes) == <<[c |-> "blake3", h |-> bytes, lo |-> 0, hi |-> HexLen]>>

\* &hex[lo..hi] of a hex digest
HexSlice(hex, lo, hi) == <<[c |-> "blake3", h |-> hex[1].h, lo |-> lo, hi |-> hi]>>

RECURSIVE ConcatRange(_, _, _)
\* ss[lo] \o .. \o ss[hi], computed by halving the range
ConcatRange(ss, lo, hi) ==
    IF lo > hi THEN <<>>
    ELSE IF lo = hi THEN ss[lo]
    ELSE LET mid == (lo + hi) \div 2
         IN  ConcatRange(ss, lo, mid) \o ConcatRange(ss, mid + 1, hi)

\* the byte stream a hasher has seen after update(s.as_bytes()) for each s of ss, in order
Concat(ss) == ConcatRange(ss, 1, Len(ss))

-----------------------------------------------------------------------------
(* serde_json values *)

JNull == [k |-> "null"]

JNum(n) == [k |-> "num", n |-> n]

JStr(s) == [k |-> "str", s |-> s]

JArr(a) == [k |-> "arr", a |-> a]

JObj(f) == [k |-> "obj", f |-> f]

Digit == <<"0", "1", "2", "3", "4", "5", "6", "7", "8", "9">>

\* serde_json::to_vec(data) for the values the model sends as chunk payloads
to_vec(data) ==
    CASE data.k = "null" -> Str("null")
      [] data.k = "num" -> Str(Digit[data.n + 1])
      [] data.k = "str" -> Str("\"") \o data.s \o Str("\"")

\* serde_json::from_str(message): a text is either no JSON document or the document it spells
from_str(text) == IF text.json THEN Some(text.doc) ELSE None

\* Value::get(key): only an object that has the key yields a value
get(value, key) ==
    IF value.k = "obj" /\ key \in DOMAIN value.f THEN Some(value.f[key]) ELSE None

\* Value::as_str()
as_str(value) == IF value.k = "str" THEN Some(value.s) ELSE None

HasStr(f, key) == key \in DOMAIN f /\ f[key].k = "str"

\* serde's derived Deserialize for DataChunk, from a JSON object
DataChunkOk(j) ==
    /\ j.k = "obj"
    /\ HasStr(j.f, "source")
    /\ "data" \in DOMAIN j.f
    /\ HasStr(j.f, "hash")
    /\ "timestamp" \in DOMAIN j.f
    /\ j.f["timestamp"].k = "num"
    /\ j.f["timestamp"].n >= 0

DataChunk(j) ==
    [source |-> j.f["source"].s, data |-> j.f["data"],
     hash |-> j.f["hash"].s, timestamp |-> j.f["timestamp"].n]

\* serde's derived Deserialize for VerifyTask, from a JSON object
VerifyTaskOk(j) ==
    /\ j.k = "obj"
    /\ HasStr(j.f, "type")
    /\ HasStr(j.f, "questId")
    /\ "data" \in DOMAIN j.f
    /\ j.f["data"].k = "arr"
    /\ \A i \in DOMAIN j.f["data"].a : DataChunkOk(j.f["data"].a[i])
    /\ "expectedHashes" \in DOMAIN j.f
    /\ j.f["expectedHashes"].k = "arr"
    /\ \A i \in DOMAIN j.f["expectedHashes"].a : j.f["expectedHashes"].a[i].k = "str"

\* serde_json::from_value::<VerifyTask>(task)
from_value(j) ==
    IF VerifyTaskOk(j)
    THEN Some([task_type |-> j.f["type"].s,
               quest_id |-> j.f["questId"].s,
               data |-> [i \in DOMAIN j.f["data"].a |-> DataChunk(j.f["data"].a[i])],
               expected_hashes |->
                   [i \in DOMAIN j.f["expectedHashes"].a |-> j.f["expectedHashes"].a[i].s]])
    ELSE None

-----------------------------------------------------------------------------
(* f32 arithmetic of the confidence computation.  A value is [m, e],       *)
(* standing for m / 2^e with 2^23 <= m < 2^24, or m = 0.  The operands are *)
(* lengths below 2^7, which `as f32` converts exactly.                     *)

\* bits of an f32 significand
MantissaBits == 24

RECURSIVE Pow2(_)
Pow2(n) == IF n = 0 THEN 1 ELSE 2 * Pow2(n - 1)

\* n / d rounded to the nearest integer, ties to even (the IEEE 754 default)
RoundHalfEven(n, d) ==
    LET q == n \div d
        r == n % d
    IN  IF 2 * r > d \/ (2 * r = d /\ q % 2 = 1) THEN q + 1 ELSE q

\* a significand that rounding carried to 2^24 is renormalised
Normalize(m, e) == IF m = Pow2(MantissaBits) THEN [m |-> m \div 2, e |-> e - 1] ELSE [m |-> m, e |-> e]

RECURSIVE ScaleUp(_, _, _)
\* the least e with n * 2^e >= lim, and n * 2^e
ScaleUp(n, lim, e) == IF n >= lim THEN <<n, e>> ELSE ScaleUp(2 * n, lim, e + 1)

RECURSIVE ScaleDown(_, _)
\* the least s with p / 2^s < 2^24
ScaleDown(p, s) == IF p \div Pow2(s) < Pow2(MantissaBits) THEN s ELSE ScaleDown(p, s + 1)

\* verified_chunks.len() as f32 / task.data.len() as f32, for 0 <= v and 0 < t < 2^7
f32_div(v, t) ==
    IF v = 0 THEN [m |-> 0, e |-> 0]
    ELSE LET s == ScaleUp(v, Pow2(MantissaBits - 1) * t, 0)
         IN  Normalize(RoundHalfEven(s[1], t), s[2])

\* x * 100.0
f32_mul100(x) ==
    IF x.m = 0 THEN x
    ELSE LET p == x.m * 100
             s == ScaleDown(p, 0)
         IN  Normalize(RoundHalfEven(p, Pow2(s)), x.e - s)

\* a cast that rounds to the nearest integer instead of truncating
as_u8_round(x) ==
    IF x.m = 0 THEN 0
    ELSE IF x.e < 0 THEN 255
    ELSE LET n == RoundHalfEven(x.m, Pow2(x.e)) IN IF n > 255 THEN 255 ELSE n

\* x as u8: truncation toward zero, saturating
as_u8(x) ==
    IF x.m = 0 THEN 0
    ELSE IF x.e < 0 THEN 255
    ELSE LET n == x.m \div Pow2(x.e) IN IF n > 255 THEN 255 ELSE n

-----------------------------------------------------------------------------
(* VerifierAgent *)

\* VerifierAgent.agent_id, read once from AGENT_ID at construction
agent_id == Str("verifier-001")

\* score at or above which a run is reported as "verified"
VerifiedThreshold == 95

\* verify_hash(&self, data, expected_hash)
verify_hash(data, expected_hash) == Blake3Hex(to_vec(data)) = expected_hash

\* one pass of the body of the for loop: the chunk pushes its claimed hash on one list
chunk_step(chunk) ==
    IF verify_hash(chunk.data, chunk.hash)
    THEN [verified_chunks |-> <<chunk.hash>>, failed_chunks |-> <<>>]
    ELSE [verified_chunks |-> <<>>, failed_chunks |-> <<chunk.hash>>]

RECURSIVE chunk_loop(_, _, _)
\* what the for loop pushes for the chunks data[lo..hi], in order (the range is halved
\* to keep the evaluation shallow)
chunk_loop(data, lo, hi) ==
    IF lo > hi THEN [verified_chunks |-> <<>>, failed_chunks |-> <<>>]
    ELSE IF lo = hi THEN chunk_step(data[lo])
    ELSE LET mid == (lo + hi) \div 2
             a == chunk_loop(data, lo, mid)
             b == chunk_loop(data, mid + 1, hi)
         IN  [verified_chunks |-> a.verified_chunks \o b.verified_chunks,
              failed_chunks |-> a.failed_chunks \o b.failed_chunks]

\* the loop with the else branch lost: a failing chunk is pushed nowhere
check_chunks_drop_failed(task) ==
    [verified_chunks |->
        chunk_loop(task.data, 1, Len(task.data)).verified_chunks,
     failed_chunks |-> <<>>]

\* the loop with the push of a failing chunk outside the if: it lands on both lists
check_chunks_push_both(task) ==
    LET lists == chunk_loop(task.data, 1, Len(task.data))
    IN  [verified_chunks |-> lists.verified_chunks \o lists.failed_chunks,
         failed_chunks |-> lists.failed_chunks]

\* a loop that checks chunk i against expected_hashes[i] where the task lists one
check_chunks_expected(task) ==
    LET expected(i) == IF i <= Len(task.expected_hashes)
                       THEN task.expected_hashes[i]
                       ELSE task.data[i].hash
        index == [i \in 1 .. Len(task.data) |-> i]
        passed == SelectSeq(index, LAMBDA i : verify_hash(task.data[i].data, expected(i)))
        missed == SelectSeq(index, LAMBDA i : ~verify_hash(task.data[i].data, expected(i)))
    IN  [verified_chunks |-> [k \in DOMAIN passed |-> task.data[passed[k]].hash],
         failed_chunks |-> [k \in DOMAIN missed |-> task.data[missed[k]].hash]]

\* verified_chunks and failed_chunks after the loop
check_chunks(task) == chunk_loop(task.data, 1, Len(task.data))

\* an aggregate that combines the verified hashes without regard to their order: the
\* hasher is fed with one fixed arrangement of the same hashes
aggregate_unordered(verified_chunks) ==
    LET n == Len(verified_chunks)
        S == {verified_chunks[i] : i \in 1 .. n}
        same == {p \in [1 .. n -> S] :
                    \A x \in S : Cardinality({i \in 1 .. n : p[i] = x})
                                  = Cardinality({i \in 1 .. n : verified_chunks[i] = x})}
    IN  Blake3Hex(Concat(CHOOSE p \in same : TRUE))

\* the hasher fed with every verified hash in order, finalized and rendered as hex
aggregate(verified_chunks) == Blake3Hex(Concat(verified_chunks))

\* a score computed by the division in every case: for no chunks 0.0 / 0.0 is NaN, which
\* `as u8` turns into 0
confidence_unguarded(verified_chunks, failed_chunks, data) ==
    as_u8(f32_mul100(f32_div(Len(verified_chunks), Len(data))))

\* the confidence score of a completed run
confidence(verified_chunks, failed_chunks, data) ==
    IF failed_chunks = <<>> THEN 100
    ELSE as_u8(f32_mul100(f32_div(Len(verified_chunks), Len(data))))

\* the status label of a completed run
status_of(score) == IF score >= VerifiedThreshold THEN Str("verified") ELSE Str("partial")

\* Ok(VerificationResult { .. }) serialized by handle_task
VerificationResult(task, locals, attestation, now) ==
    LET score == confidence(locals.verified_chunks, locals.failed_chunks, task.data)
    IN  [type |-> Str("task_result"),
         questId |-> task.quest_id,
         agentId |-> agent_id,
         status |-> status_of(score),
         attestation |-> [quote |-> attestation.quote,
                          data_hash |-> locals.aggregate_hash,
                          timestamp |-> now,
                          validator_pubkey |-> attestation.validator_pubkey,
                          signature |-> attestation.signature,
                          confidence_score |-> score],
         verifiedChunks |-> locals.verified_chunks,
         failedChunks |-> locals.failed_chunks]

\* an envelope that serializes an empty attestation beside the error
ErrorResponse_null_attestation(task, e) ==
    [type |-> Str("task_result"),
     questId |-> task.quest_id,
     agentId |-> agent_id,
     status |-> Str("error"),
     error |-> e,
     attestation |-> JNull]

\* the error envelope handle_task builds from Err(e)
ErrorResponse(task, e) ==
    [type |-> Str("task_result"),
     questId |-> task.quest_id,
     agentId |-> agent_id,
     status |-> Str("error"),
     error |-> e]

\* a reply that does not say who answers
Pong_anonymous == [type |-> Str("pong")]

\* the reply to a ping
Pong == [type |-> Str("pong"), agentId |-> agent_id]

\* an announcement with the role of another agent of the swarm
Registration_scraper ==
    [type |-> Str("register"),
     role |-> Str("scraper"),
     agentId |-> agent_id,
     capabilities |-> <<Str("tee_attestation"), Str("hash_verification"), Str("data_integrity")>>]

\* the registration announcement
Registration ==
    [type |-> Str("register"),
     role |-> Str("verifier"),
     agentId |-> agent_id,
     capabilities |-> <<Str("tee_attestation"), Str("hash_verification"), Str("data_integrity")>>]

-----------------------------------------------------------------------------
(* EigenCompute *)

\* a simulated attestation whose digest leaves the quest id out
generate_dev_attestation_unbound(data_hash, quest_id) ==
    LET quote_hash == Blake3Hex(data_hash \o Str("eigencloud_dev_attestation"))
    IN  [quote |-> Str("DEV_TDX_QUOTE_") \o quote_hash,
         validator_pubkey |-> Str("DEV_PUBKEY_") \o HexSlice(quote_hash, 0, 16),
         signature |-> Str("DEV_SIG_") \o HexSlice(quote_hash, 16, 48),
         success |-> TRUE,
         error |-> None]

\* generate_dev_attestation(data_hash, quest_id)
generate_dev_attestation(data_hash, quest_id) ==
    LET quote_hash == Blake3Hex(data_hash \o quest_id \o Str("eigencloud_dev_attestation"))
    IN  [quote |-> Str("DEV_TDX_QUOTE_") \o quote_hash,
         validator_pubkey |-> Str("DEV_PUBKEY_") \o HexSlice(quote_hash, 0, 16),
         signature |-> Str("DEV_SIG_") \o HexSlice(quote_hash, 16, 48),
         success |-> TRUE,
         error |-> None]

\* the JSON payload posted to {TEE_CONTAINER_URL}/verify
Payload(data_hash, verified_hashes, quest_id, timestamp) ==
    [operation |-> Str("verify_data_integrity"),
     dataHash |-> data_hash,
     verifiedHashes |-> verified_hashes,
     questId |-> quest_id,
     timestamp |-> timestamp,
     teeType |-> Str("TDX")]

\* what execute_verification returns for the outcome of the HTTP exchange
execute_verification_result(outcome) ==
    CASE outcome.kind = "transport" ->
            [ok |-> FALSE, e |-> Str("TEE container error: ") \o outcome.text]
      [] outcome.kind = "status" ->
            [ok |-> FALSE, e |-> Str("TEE verification failed: ") \o outcome.text]
      [] outcome.kind = "unparseable" ->
            [ok |-> FALSE, e |-> Str("Failed to parse attestation: ") \o outcome.text]
      [] outcome.kind = "attestation" ->
            [ok |-> TRUE, v |-> outcome.body]

-----------------------------------------------------------------------------
(* What the coordinator, the clock and the attestation container can do *)

\* values of SystemTime::now() in seconds
Times == 0 .. MaxTime

\* chunk payloads: the number 1 and the string "1"
D1 == JNum(1)

D2 == JStr(Str("1"))

ChunkJson(data, hash) ==
    JObj([source |-> JStr(Str("src")), data |-> data, hash |-> JStr(hash), timestamp |-> JNum(0)])

\* a chunk whose claimed digest is the digest of its payload
Good1 == ChunkJson(D1, Blake3Hex(to_vec(D1)))

\* a chunk that claims the digest of Good1 for another payload
Bad1 == ChunkJson(D2, Blake3Hex(to_vec(D1)))

\* a second matching chunk, with another digest
Good2 == ChunkJson(D2, Blake3Hex(to_vec(D2)))

ChunkKinds == {Good1, Bad1, Good2}

QuestIds == {Str("q1"), Str("q2")}

ExpectedLists == {<<>>, <<JStr(Blake3Hex(to_vec(D2)))>>}

SeqsUpTo(S, n) == UNION {[1 .. k -> S] : k \in 0 .. n}

TaskJson(quest, chunks, expected) ==
    JObj([type |-> JStr(Str("verify_task")), questId |-> JStr(quest),
          data |-> JArr(chunks), expectedHashes |-> JArr(expected)])

Text(doc) == [json |-> TRUE, doc |-> doc]

\* well-formed verify_task messages of the session specification
TaskTexts ==
    {Text(TaskJson(q, cs, ex)) : q \in QuestIds, cs \in SeqsUpTo(ChunkKinds, MaxChunks),
                                 ex \in ExpectedLists}

PingText == Text(JObj([type |-> JStr(Str("ping"))]))

\* texts handle_task cannot dispatch
BadTexts ==
    { [json |-> FALSE],                                           \* not JSON
      Text(JArr(<<JStr(Str("ping"))>>)),                          \* JSON, not an object
      Text(JObj([questId |-> JStr(Str("q1"))])),                  \* no type tag
      Text(JObj([type |-> JNum(7)])),                             \* type tag not a string
      Text(JObj([type |-> JStr(Str("status"))])),                 \* unknown type
      Text(JObj([type |-> JStr(Str("verify_task")),               \* task without questId
                 data |-> JArr(<<Good1>>), expectedHashes |-> JArr(<<>>)])),
      Text(JObj([type |-> JStr(Str("verify_task")), questId |-> JStr(Str("q1")),
                 data |-> JArr(<<JObj([source |-> JStr(Str("src")), data |-> D1])>>),
                 expectedHashes |-> JArr(<<>>)])),                \* chunk without hash
      Text(JObj([type |-> JStr(Str("verify_task")), questId |-> JStr(Str("q1")),
                 data |-> JArr(<<Good1>>)])) }                    \* no expectedHashes

SessionTexts == TaskTexts \cup {PingText} \cup BadTexts

Repeat(x, n) == [i \in 1 .. n |-> x]

\* verify_task messages of the single-task specification: a matching chunks, then b failing ones
BulkTexts ==
    UNION {{Text(TaskJson(Str("q1"), Repeat(Good1, a) \o Repeat(Bad1, b), <<>>)) :
               b \in 0 .. MaxBulk - a} : a \in 0 .. MaxBulk}

\* outcomes of the HTTP exchange with the TEE container
ProviderReplies ==
    { [kind |-> "transport", text |-> Str("connection refused")],
      [kind |-> "status", text |-> <<>>],
      [kind |-> "unparseable", text |-> Str("expected value")],
      [kind |-> "attestation",
       body |-> [quote |-> Str("TDX_QUOTE"), validator_pubkey |-> Str("PUBKEY"),
                 signature |-> Str("SIG"), success |-> TRUE, error |-> None]],
      [kind |-> "attestation",
       body |-> [quote |-> <<>>, validator_pubkey |-> <<>>,
                 signature |-> <<>>, success |-> FALSE, error |-> Some(Str("denied"))]] }

-----------------------------------------------------------------------------
(* handle_task: dispatch *)

\* the type tag handle_task extracts, None when any of the three `?` returns early
task_type(text) ==
    LET task == from_str(text)
    IN  IF ~task.some THEN None
        ELSE LET tag == get(task.v, "type")
             IN  IF ~tag.some THEN None ELSE as_str(tag.v)

\* a dispatch whose default arm answers like the ping arm
Dispatch_default_pong(text) ==
    LET tag == task_type(text)
    IN  CASE ~tag.some -> "drop"
          [] tag.some /\ tag.v = Str("verify_task") ->
                IF from_value(from_str(text).v).some THEN "verify" ELSE "drop"
          [] OTHER -> "ping"

\* the arm of handle_task a text reaches: "verify", "ping" or "drop" (it returns None)
Dispatch(text) ==
    LET tag == task_type(text)
    IN  CASE ~tag.some -> "drop"
          [] tag.some /\ tag.v = Str("verify_task") ->
                IF from_value(from_str(text).v).some THEN "verify" ELSE "drop"
          [] tag.some /\ tag.v = Str("ping") -> "ping"
          [] OTHER -> "drop"

\* verify_task of handle_task, for a text that reaches the pipeline
TaskOf(text) == from_value(from_str(text).v).v

\* locals whose aggregate is fed with the hashes of the failed chunks too
Locals_aggregate_all(task) ==
    LET lists == check_chunks(task)
    IN  [verified_chunks |-> lists.verified_chunks,
         failed_chunks |-> lists.failed_chunks,
         aggregate_hash |-> aggregate(lists.verified_chunks \o lists.failed_chunks)]

\* the locals of verify_in_tee when it calls execute_verification
Locals(task) ==
    LET lists == check_chunks(task)
    IN  [verified_chunks |-> lists.verified_chunks,
         failed_chunks |-> lists.failed_chunks,
         aggregate_hash |-> aggregate(lists.verified_chunks)]

\* a task_result without its bulk (questId, attestation, digest lists, error text);
\* every other message whole
Brief(m) ==
    IF m.type = Str("task_result")
    THEN [type |-> m.type, agentId |-> m.agentId, status |-> m.status]
    ELSE m

\* the record of a message written by write.send: the message, in brief, and the number
\* of the frame that caused it (0 for the registration)
Written(m, cause) == [m |-> Brief(m), cause |-> cause]

\* the task handed to a spawned future: run() goes back to read.next() at once
AwaitAttestation_spawned == "read"

\* where run() waits after verify_in_tee has called execute_verification(..).await
AwaitAttestation == "attest"

-----------------------------------------------------------------------------
(* run *)

NoFrame == [frame |-> "none"]

Init ==
    /\ dev_mode \in BOOLEAN
    /\ pc = "connect"
    /\ ret = "none"
    /\ nread = 0
    /\ msg = NoFrame
    /\ dropped = None
    /\ tee = None
    /\ pipe = "Idle"
    /\ request = None
    /\ reply = None
    /\ attest_calls = 0
    /\ response = None
    /\ wire = <<>>

\* connect_async(...).await succeeds
ConnectOk ==
    /\ pc = "connect"
    /\ pc' = "register"
    /\ UNCHANGED <<dev_mode, ret, nread, msg, dropped, tee, pipe, request, reply, attest_calls, response, wire>>

\* connect_async(...).await? returns the error
ConnectFail ==
    /\ pc = "connect"
    /\ pc' = "done"
    /\ ret' = "Err"
    /\ UNCHANGED <<dev_mode, nread, msg, dropped, tee, pipe, request, reply, attest_calls, response, wire>>

\* write.send(registration).await succeeds
RegisterOk ==
    /\ pc = "register"
    /\ wire' = Append(wire, Written(Registration, 0))
    /\ pc' = "read"
    /\ UNCHANGED <<dev_mode, ret, nread, msg, dropped, tee, pipe, request, reply, attest_calls, response>>

\* write.send(registration).await? returns the error
RegisterFail ==
    /\ pc = "register"
    /\ pc' = "done"
    /\ ret' = "Err"
    /\ UNCHANGED <<dev_mode, nread, msg, dropped, tee, pipe, request, reply, attest_calls, response, wire>>

\* read.next() delivers Ok(Message::Text(text)); handle_task runs up to its first
\* suspension (the attestation request) or to its return
ReadText(texts, max) ==
    /\ pc = "read"
    /\ nread < max
    /\ \E text \in texts :
        /\ nread' = nread + 1
        /\ LET arm == Dispatch(text)
           IN  CASE arm = "drop" ->
                      /\ msg' = NoFrame
                      /\ dropped' = Some(text)
                      /\ pc' = "read"
                      /\ UNCHANGED <<tee, pipe, request, reply, attest_calls, response>>
                 [] arm = "ping" ->
                      /\ msg' = [frame |-> "Text", text |-> text]
                      /\ dropped' = None
                      /\ response' = Some(Pong)
                      /\ pc' = "write"
                      /\ UNCHANGED <<tee, pipe, request, reply, attest_calls>>
                 [] arm = "verify" ->
                      LET task == TaskOf(text)
                          locals == Locals(task)
                      IN  /\ msg' = [frame |-> "Text", text |-> text]
                          /\ dropped' = None
                          /\ attest_calls' = attest_calls + 1
                          /\ IF dev_mode
                             THEN \E now \in Times :
                                    /\ response' = Some(VerificationResult(task, locals,
                                           generate_dev_attestation(locals.aggregate_hash,
                                                                    task.quest_id), now))
                                    /\ pipe' = "Completed"
                                    /\ pc' = "write"
                                    /\ UNCHANGED <<tee, request, reply>>
                             ELSE \E now \in Times :
                                    /\ request' = Some(Payload(locals.aggregate_hash,
                                           locals.verified_chunks, task.quest_id, now))
                                    /\ tee' = Some(locals)
                                    /\ pipe' = "AttestationRequested"
                                    /\ pc' = AwaitAttestation
                                    /\ UNCHANGED <<reply, response>>
    /\ UNCHANGED <<dev_mode, ret, wire>>

\* a return in which the Err arm of handle_task yields None instead of the envelope
AttestReturn_error_dropped ==
    /\ pc = "attest"
    /\ \E reply_ \in ProviderReplies, now \in Times :
        /\ LET task == TaskOf(msg.text)
               result == execute_verification_result(reply_)
           IN  IF result.ok
               THEN /\ response' = Some(VerificationResult(task, tee.v, result.v, now))
                    /\ pipe' = "Completed"
               ELSE /\ response' = None
                    /\ pipe' = "Failed"
        /\ reply' = Some(reply_)
    /\ tee' = None
    /\ request' = None
    /\ pc' = "write"
    /\ UNCHANGED <<dev_mode, ret, nread, msg, dropped, attest_calls, wire>>

\* a return that calls the provider a second time when the first call fails
AttestReturn_retry ==
    /\ pc = "attest"
    /\ \E reply_ \in ProviderReplies, now \in Times :
        /\ LET task == TaskOf(msg.text)
               result == execute_verification_result(reply_)
           IN  IF result.ok
               THEN /\ response' = Some(VerificationResult(task, tee.v, result.v, now))
                    /\ pipe' = "Completed"
                    /\ tee' = None /\ request' = None /\ pc' = "write"
                    /\ UNCHANGED attest_calls
               ELSE IF reply = None
               THEN /\ attest_calls' = attest_calls + 1
                    /\ UNCHANGED <<response, pipe, tee, request, pc>>
               ELSE /\ response' = Some(ErrorResponse(task, result.e))
                    /\ pipe' = "Failed"
                    /\ tee' = None /\ request' = None /\ pc' = "write"
                    /\ UNCHANGED attest_calls
        /\ reply' = Some(reply_)
    /\ UNCHANGED <<dev_mode, ret, nread, msg, dropped, wire>>

\* the HTTP exchange ends; verify_in_tee and handle_task run to their return
AttestReturn ==
    /\ pc = "attest"
    /\ \E reply_ \in ProviderReplies, now \in Times :
        /\ LET task == TaskOf(msg.text)
               result == execute_verification_result(reply_)
           IN  IF result.ok
               THEN /\ response' = Some(VerificationResult(task, tee.v, result.v, now))
                    /\ pipe' = "Completed"
               ELSE /\ response' = Some(ErrorResponse(task, result.e))
                    /\ pipe' = "Failed"
        /\ reply' = Some(reply_)
    /\ tee' = None
    /\ request' = None
    /\ pc' = "write"
    /\ UNCHANGED <<dev_mode, ret, nread, msg, dropped, attest_calls, wire>>

\* a write after which a failed run ends the session: run() returns the failure
WriteOk_error_fatal ==
    /\ pc = "write"
    /\ wire' = Append(wire, Written(response.v, nread))
    /\ response' = None
    /\ reply' = None
    /\ pipe' = "Idle"
    /\ msg' = NoFrame
    /\ IF pipe = "Failed" THEN pc' = "done" /\ ret' = "Err" ELSE pc' = "read" /\ ret' = ret
    /\ UNCHANGED <<dev_mode, nread, dropped, tee, request, attest_calls>>

\* write.send(response).await succeeds; the loop goes back to read.next()
WriteOk ==
    /\ pc = "write"
    /\ wire' = Append(wire, Written(response.v, nread))
    /\ response' = None
    /\ reply' = None
    /\ pipe' = "Idle"
    /\ msg' = NoFrame
    /\ pc' = "read"
    /\ UNCHANGED <<dev_mode, ret, nread, dropped, tee, request, attest_calls>>

\* write.send(response).await? returns the error
WriteFail ==
    /\ pc = "write"
    /\ response' = None
    /\ reply' = None
    /\ pipe' = "Idle"
    /\ pc' = "done"
    /\ ret' = "Err"
    /\ msg' = NoFrame
    /\ UNCHANGED <<dev_mode, nread, dropped, tee, request, attest_calls, wire>>

\* a Close arm without the break: the loop goes on reading after the close
ReadClose_keep_reading(max) ==
    /\ pc = "read"
    /\ nread < max
    /\ msg' = [frame |-> "Close"]
    /\ dropped' = None
    /\ nread' = nread + 1
    /\ UNCHANGED <<dev_mode, pc, ret, tee, pipe, request, reply, attest_calls, response, wire>>

\* read.next() delivers Ok(Message::Close(_)): break, then Ok(())
ReadClose(max) ==
    /\ pc = "read"
    /\ nread < max
    /\ msg' = [frame |-> "Close"]
    /\ dropped' = None
    /\ nread' = nread + 1
    /\ pc' = "done"
    /\ ret' = "Ok"
    /\ UNCHANGED <<dev_mode, tee, pipe, request, reply, attest_calls, response, wire>>

\* read.next() delivers Err(e): break, then Ok(())
ReadError(max) ==
    /\ pc = "read"
    /\ nread < max
    /\ msg' = [frame |-> "Err"]
    /\ dropped' = None
    /\ nread' = nread + 1
    /\ pc' = "done"
    /\ ret' = "Ok"
    /\ UNCHANGED <<dev_mode, tee, pipe, request, reply, attest_calls, response, wire>>

\* read.next() delivers a binary, ping, pong or raw frame: the `_ => {}` arm
ReadOther(max) ==
    /\ pc = "read"
    /\ nread < max
    /\ msg' = NoFrame
    /\ dropped' = None
    /\ nread' = nread + 1
    /\ UNCHANGED <<dev_mode, pc, ret, tee, pipe, request, reply, attest_calls, response, wire>>

\* read.next() yields None: the while-let ends, then Ok(())
ReadEnd ==
    /\ pc = "read"
    /\ pc' = "done"
    /\ ret' = "Ok"
    /\ UNCHANGED <<dev_mode, nread, msg, dropped, tee, pipe, request, reply, attest_calls, response, wire>>

\* a session with the coordinator
Next ==
    \/ ConnectOk
    \/ ConnectFail
    \/ RegisterOk
    \/ RegisterFail
    \/ ReadText(SessionTexts, MaxReads)
    \/ AttestReturn
    \/ WriteOk
    \/ WriteFail
    \/ ReadClose(MaxReads)
    \/ ReadError(MaxReads)
    \/ ReadOther(MaxReads)
    \/ ReadEnd

Spec == Init /\ [][Next]_vars

\* a session in which the coordinator sends one task, of up to MaxBulk chunks
NextBulk ==
    \/ ConnectOk
    \/ ConnectFail
    \/ RegisterOk
    \/ RegisterFail
    \/ ReadText(BulkTexts, 1)
    \/ AttestReturn
    \/ WriteOk
    \/ WriteFail
    \/ ReadClose(1)
    \/ ReadError(1)
    \/ ReadOther(1)
    \/ ReadEnd

SpecBulk == Init /\ [][NextBulk]_vars

-----------------------------------------------------------------------------
(* Properties *)

\* the task of the frame being processed
CurTask == TaskOf(msg.text)

\* the digest strings claimed by the chunks of a task, in order
ClaimedHashes(task) == [i \in DOMAIN task.data |-> task.data[i].hash]

\* number of positions of seq that hold x
Count(seq, x) == Cardinality({i \in DOMAIN seq : seq[i] = x})

Range(seq) == {seq[i] : i \in DOMAIN seq}

\* the two digest lists of the run: the locals while the attestation is awaited, the
\* fields of the outcome once the run has completed
RunLists ==
    IF pipe = "Completed"
    THEN [verified_chunks |-> response.v.verifiedChunks, failed_chunks |-> response.v.failedChunks]
    ELSE [verified_chunks |-> tee.v.verified_chunks, failed_chunks |-> tee.v.failed_chunks]

HasLists == pipe = "Completed" \/ pipe = "AttestationRequested"

\* C1: after the chunk loop every chunk, by position, has put its claimed digest on
\* exactly one of verified_chunks / failed_chunks: the lengths add up to len(task.data),
\* and every digest string occurs in the two lists together as often as it is claimed in
\* the task; this holds for the empty chunk list too.
C1_ChunksPartitioned ==
    HasLists =>
        /\ Len(RunLists.verified_chunks) + Len(RunLists.failed_chunks) = Len(CurTask.data)
        /\ \A h \in Range(ClaimedHashes(CurTask)) \cup Range(RunLists.verified_chunks)
                    \cup Range(RunLists.failed_chunks) :
              Count(RunLists.verified_chunks, h) + Count(RunLists.failed_chunks, h)
                  = Count(ClaimedHashes(CurTask), h)

\* a completed run over a task with a verified and a failed chunk
C1_Witness ==
    /\ pipe = "Completed"
    /\ Len(CurTask.data) = 2
    /\ Len(response.v.verifiedChunks) = 1
    /\ Len(response.v.failedChunks) = 1

\* a completed run over the empty chunk list
C1_WitnessEmpty ==
    /\ pipe = "Completed"
    /\ CurTask.data = <<>>
    /\ response.v.verifiedChunks = <<>>
    /\ response.v.failedChunks = <<>>

\* C2 as claimed: no digest string appears in both verifiedChunks and failedChunks of an
\* outcome, also when several chunks claim the same digest string.
C2_DisjointAsClaimed ==
    pipe = "Completed" =>
        Range(response.v.verifiedChunks) \cap Range(response.v.failedChunks) = {}

\* the payload of chunk i of the task hashes to the digest the chunk claims
Matches(task, i) == Blake3Hex(to_vec(task.data[i].data)) = task.data[i].hash

\* no two chunks of the task claim the same digest string
DistinctClaims(task) ==
    \A i, j \in DOMAIN task.data : task.data[i].hash = task.data[j].hash => i = j

\* C2 amended: the verified and failed digest sets are disjoint for every task whose
\* chunks claim pairwise distinct digest strings; in general a digest string is in both
\* lists exactly when the task holds a chunk that claims it and matches and another chunk
\* that claims it and does not match.
C2_DisjointUnlessSharedClaim ==
    pipe = "Completed" =>
        /\ DistinctClaims(CurTask) =>
              Range(response.v.verifiedChunks) \cap Range(response.v.failedChunks) = {}
        /\ \A h \in Range(response.v.verifiedChunks) \cup Range(response.v.failedChunks) :
              (h \in Range(response.v.verifiedChunks) /\ h \in Range(response.v.failedChunks))
              <=> \E i, j \in DOMAIN CurTask.data :
                      /\ CurTask.data[i].hash = h /\ Matches(CurTask, i)
                      /\ CurTask.data[j].hash = h /\ ~Matches(CurTask, j)

\* a completed run over chunks with distinct claims, one verified and one failed
C2_Witness ==
    /\ pipe = "Completed"
    /\ DistinctClaims(CurTask)
    /\ response.v.verifiedChunks # <<>>
    /\ response.v.failedChunks # <<>>

\* the score and the status of a completed run
Score == response.v.attestation.confidence_score

Status == response.v.status

\* C3 as claimed: a completed run over total_count > 0 chunks reports
\* floor(100 * verified_count / total_count) when verified_count < total_count and 100
\* when all chunks verify, and is "verified" iff the score is at least 95.
C3_ScoreIsFloor ==
    (pipe = "Completed" /\ Len(CurTask.data) > 0) =>
        LET verified_count == Len(response.v.verifiedChunks)
            total_count == Len(CurTask.data)
        IN  /\ Score = IF verified_count < total_count
                       THEN (100 * verified_count) \div total_count
                       ELSE 100
            /\ (Score = 100) <=> (verified_count = total_count)
            /\ (Status = Str("verified")) <=> (Score >= 95)
            /\ (Status = Str("partial")) <=> (Score < 95)

\* C4 as claimed: a completed run with at least one failed chunk is always "partial".
C4_FailedChunkIsPartial ==
    (pipe = "Completed" /\ response.v.failedChunks # <<>>) => Status = Str("partial")

\* C4 amended: a completed run with at least one failed chunk is a normal task_result
\* with an attestation, never "error": it is "partial" when its confidence score is
\* below 95 and "verified" when the score is 95 or more; the score is below 95, and the
\* status "partial", for every such task of fewer than 20 chunks, and 19 verified chunks
\* of 20 give "verified".
C4_FailedChunkStatus ==
    (pipe = "Completed" /\ response.v.failedChunks # <<>>) =>
        /\ response.v.type = Str("task_result")
        /\ "attestation" \in DOMAIN response.v
        /\ "error" \notin DOMAIN response.v
        /\ Status # Str("error")
        /\ Score < 95 => Status = Str("partial")
        /\ Score >= 95 => Status = Str("verified")
        /\ Len(CurTask.data) < 20 => (Score < 95 /\ Status = Str("partial"))
        /\ (Len(CurTask.data) = 20 /\ Len(response.v.failedChunks) = 1) =>
              (Score = 95 /\ Status = Str("verified"))

\* a completed run with 3 verified chunks of 4: a "partial" outcome
C4_Witness ==
    /\ pipe = "Completed"
    /\ Len(CurTask.data) = 4
    /\ Len(response.v.failedChunks) = 1
    /\ Score = 75
    /\ Status = Str("partial")

\* the quest id spelled in the text being processed
QuestIdOfMsg == msg.text.doc.f["questId"].s

ErrorKinds == {"transport", "status", "unparseable"}

\* C5: a run is Failed only when the attestation call returned an error, and every
\* error of the call fails the run; handle_task then returns a task_result that carries
\* the task's questId, the agent id, status "error" and a non-empty error text, and no
\* attestation, verifiedChunks or failedChunks field; every outcome with status
\* "verified" or "partial" carries an attestation.
C5_FailedEnvelope ==
    /\ pipe = "Failed" =>
          /\ reply.some /\ reply.v.kind \in ErrorKinds
          /\ response.some
          /\ DOMAIN response.v = {"type", "questId", "agentId", "status", "error"}
          /\ response.v.type = Str("task_result")
          /\ response.v.questId = QuestIdOfMsg
          /\ response.v.agentId = agent_id
          /\ response.v.status = Str("error")
          /\ response.v.error # <<>>
    /\ (reply.some /\ reply.v.kind \in ErrorKinds) => pipe = "Failed"
    /\ (response.some /\ response.v.type = Str("task_result")
          /\ response.v.status \in {Str("verified"), Str("partial")}) =>
          /\ pipe = "Completed"
          /\ "attestation" \in DOMAIN response.v
          /\ "error" \notin DOMAIN response.v

\* a run failed by a transport error, its envelope about to be written
C5_Witness ==
    /\ pipe = "Failed"
    /\ pc = "write"
    /\ reply.v.kind = "transport"
    /\ response.v.status = Str("error")

PingFrame == [frame |-> "Text", text |-> PingText]

PongMessage == [type |-> Str("pong"), agentId |-> agent_id]

\* C6: in every session state, reading a ping makes handle_task return exactly the
\* reply {type: "pong", agentId: <agent id>} without a pipeline run or an attestation
\* call; the write puts that one reply on the channel, and no frame ever causes more
\* than one written message.
C6_PingPong ==
    /\ [][(nread' = nread + 1 /\ msg' = PingFrame) =>
            /\ response' = Some(PongMessage)
            /\ pc' = "write"
            /\ attest_calls' = attest_calls
            /\ pipe' = "Idle" /\ tee' = None /\ request' = None /\ reply' = None
            /\ wire' = wire]_vars
    /\ [][(pc = "write" /\ msg = PingFrame /\ pc' = "read") =>
            wire' = Append(wire, [m |-> PongMessage, cause |-> nread])]_vars
    /\ [](\A i, j \in DOMAIN wire : wire[i].cause = wire[j].cause => i = j)

\* a pong written after a task_result of the same session
C6_Witness ==
    \E i, j \in DOMAIN wire :
        /\ i < j
        /\ wire[i].m.type = Str("task_result")
        /\ wire[j].m = PongMessage

\* C7: a text that cannot be dispatched (not JSON, no type tag, a type tag that is not a
\* string, an unknown type, a verify_task with a malformed body) is never taken into
\* processing: handle_task returns None for it, which produces no outbound message and no
\* attestation call and leaves the session open at read.next(), where the next message
\* is read and processed: a ping that follows it is answered.
C7_UndispatchableDropped ==
    /\ [](msg.frame = "Text" => msg.text \notin BadTexts)
    /\ [][(nread' = nread + 1 /\ dropped'.some) =>
            /\ pc = "read" /\ pc' = "read"
            /\ ret' = "none"
            /\ response' = None
            /\ wire' = wire
            /\ attest_calls' = attest_calls
            /\ pipe' = "Idle" /\ tee' = None /\ request' = None /\ reply' = None]_vars
    /\ [][(dropped.some /\ dropped.v \in BadTexts /\ nread' = nread + 1
            /\ msg' = PingFrame) => response' = Some(PongMessage)]_vars

\* a session still reading after it has dropped a text it could not dispatch
C7_Witness ==
    /\ dropped.some
    /\ dropped.v \in BadTexts
    /\ pc = "read"
    /\ ret = "none"
    /\ nread = 1
    /\ Len(wire) = 1

\* C8: the loop is sequential.  At read.next() nothing is being processed; a frame is
\* read only there; an attestation call is made only when none is in flight; a response
\* is written for the frame read last, before the next frame is read, so the written
\* messages follow the order of the frames that caused them.
C8_Sequential ==
    /\ [](pc = "read" =>
            (response = None /\ tee = None /\ request = None /\ reply = None /\ pipe = "Idle"))
    /\ [](\A i, j \in DOMAIN wire : i < j => wire[i].cause < wire[j].cause)
    /\ [][nread' # nread => (pc = "read" /\ nread' = nread + 1)]_vars
    /\ [][attest_calls' # attest_calls =>
            (request = None /\ attest_calls' = attest_calls + 1)]_vars
    /\ [][(wire' # wire /\ pc # "register") =>
            /\ pc = "write"
            /\ nread' = nread
            /\ Len(wire') = Len(wire) + 1
            /\ wire'[Len(wire')].cause = nread]_vars

\* two responses written in the order of their frames, the first after an awaited
\* attestation
C8_Witness ==
    /\ ~dev_mode
    /\ Len(wire) = 3
    /\ wire[2].m.type = Str("task_result")
    /\ wire[2].cause = 1
    /\ wire[3].cause = 2

\* the channel session under the assumption that the attestation container answers
SpecFair == Spec /\ WF_vars(AttestReturn)

Terminal == pipe = "Completed" \/ pipe = "Failed"

\* C9: a pipeline run that has requested its attestation ends Completed or Failed once
\* the provider answers; until then no frame is read and run() does not return, so no
\* inbound event cancels it; at its end handle_task holds one task_result with the
\* task's questId and the agent id.
C9_RunTerminates ==
    /\ (pipe = "AttestationRequested") ~> Terminal
    /\ [][pipe = "AttestationRequested" =>
            (pipe' \in {"Completed", "Failed"} /\ nread' = nread /\ msg' = msg
             /\ ret' = "none")]_vars
    /\ [](pipe = "AttestationRequested" => (pc = "attest" /\ ret = "none"))
    /\ [](Terminal =>
            /\ response.some
            /\ response.v.type = Str("task_result")
            /\ response.v.questId = QuestIdOfMsg
            /\ response.v.agentId = agent_id)

\* a run completed after its attestation was awaited
C9_Witness ==
    /\ ~dev_mode
    /\ pipe = "Completed"
    /\ reply.some
    /\ response.v.questId = QuestIdOfMsg

\* C10: the first message written is the registration {type: "register", role:
\* "verifier", agentId, capabilities}; it is written once, after the connection and
\* before any frame is read; when the connection or the registration fails nothing is
\* read and run() returns the error.
C10_RegistrationFirst ==
    /\ wire # <<>> =>
          wire[1] = [m |-> [type |-> Str("register"), role |-> Str("verifier"),
                            agentId |-> agent_id,
                            capabilities |-> <<Str("tee_attestation"),
                                               Str("hash_verification"),
                                               Str("data_integrity")>>],
                     cause |-> 0]
    /\ \A i \in DOMAIN wire : i > 1 => wire[i].m.type # Str("register")
    /\ pc \in {"connect", "register"} => (wire = <<>> /\ nread = 0 /\ ret = "none")
    /\ pc \in {"read", "attest", "write"} => wire # <<>>
    /\ nread > 0 => wire # <<>>
    /\ (pc = "done" /\ wire = <<>>) => (ret = "Err" /\ nread = 0 /\ msg = NoFrame)

\* a session that registered and then read a frame
C10_Witness ==
    /\ Len(wire) = 1
    /\ wire[1].m.type = Str("register")
    /\ nread = 1
    /\ msg.frame = "Text"

\* a session whose registration could not be sent
C10_WitnessFailed ==
    /\ pc = "done"
    /\ ret = "Err"
    /\ wire = <<>>
    /\ nread = 0

\* C11: once read.next() has delivered a close frame or a transport error, or has
\* reported the end of the stream, the loop is left and run() has returned: the step that
\* observes the event writes nothing and ends in the returned state, and from the
\* returned state no frame is read, no message is written and the connection is never
\* opened again.
C11_LoopExitFinal ==
    /\ [](msg.frame \in {"Close", "Err"} => (pc = "done" /\ ret # "none"))
    /\ [][(pc = "read" /\ nread' = nread + 1 /\ msg'.frame \in {"Close", "Err"}) =>
            (pc' = "done" /\ ret' # "none" /\ wire' = wire /\ response' = None)]_vars
    /\ [][(pc = "read" /\ nread' = nread) =>
            (pc' = "done" /\ ret' # "none" /\ wire' = wire /\ response' = None)]_vars
    /\ [][pc = "done" =>
            (pc' = "done" /\ ret' = ret /\ nread' = nread /\ wire' = wire)]_vars
    /\ [][pc # "connect" => pc' # "connect"]_vars

\* a session that answered a frame and was then closed by the peer
C11_Witness ==
    /\ pc = "done"
    /\ ret # "none"
    /\ msg.frame = "Close"
    /\ nread = 2
    /\ Len(wire) = 2

\* a session ended by the end of the stream after a frame was answered
C11_WitnessEnd ==
    /\ pc = "done"
    /\ msg = NoFrame
    /\ nread = 1
    /\ Len(wire) = 2

\* C12 as claimed: whenever the loop was left because of a channel error, on the read
\* side as well as on the write side, run() returns an error value.
C12_ChannelErrorSurfaced ==
    (pc = "done" /\ msg.frame = "Err") => ret = "Err"

\* characters lo..hi of the hex digest of the byte stream bytes
DigestPart(bytes, lo, hi) == <<[c |-> "blake3", h |-> bytes, lo |-> lo, hi |-> hi]>>

\* C13: with the simulated variant the attestation of a run is a function of the
\* aggregate hash and the quest id alone: quote, validator public key and signature are
\* the fixed prefixes followed by parts of the digest of (aggregate hash, quest id,
\* "eigencloud_dev_attestation"), whatever the verified-hash list, the time of the call
\* and the calls made before; the call reports success without an error and without an
\* HTTP exchange, so in dev mode no run waits for the provider and no run ends Failed.
C13_DevAttestationPure ==
    dev_mode =>
        /\ pipe \in {"Idle", "Completed"}
        /\ request = None /\ reply = None /\ tee = None
        /\ pipe = "Completed" =>
              LET a == response.v.attestation
                  bytes == a.data_hash \o response.v.questId \o Str("eigencloud_dev_attestation")
                  call == generate_dev_attestation(a.data_hash, response.v.questId)
              IN  /\ a.quote = Str("DEV_TDX_QUOTE_") \o DigestPart(bytes, 0, 64)
                  /\ a.validator_pubkey = Str("DEV_PUBKEY_") \o DigestPart(bytes, 0, 16)
                  /\ a.signature = Str("DEV_SIG_") \o DigestPart(bytes, 16, 48)
                  /\ call.success /\ call.error = None
                  /\ response.v.status \in {Str("verified"), Str("partial")}

\* a second simulated attestation of a session, after a first one was written
C13_Witness ==
    /\ dev_mode
    /\ pipe = "Completed"
    /\ nread = 2
    /\ Len(wire) = 2
    /\ wire[2].m.type = Str("task_result")
    /\ response.v.attestation.timestamp = 1
    /\ response.v.verifiedChunks # <<>>

\* the digest strings of the payloads a chunk can carry
Digests == {Blake3Hex(to_vec(d)) : d \in {D1, D2, JNull}}

\* C14: aggregation depends on the order of the digests and is defined for every list:
\* for two distinct digest strings h1, h2 the aggregate of [h1, h2] differs from the
\* aggregate of [h2, h1] (the hash being injective on its byte stream), and the
\* aggregate of the empty list is the digest of the empty byte stream; the data hash of a
\* completed run changes when its first two verified digests, if distinct, are swapped.
C14_AggregateOrdered ==
    /\ \A h1, h2 \in Digests :
          h1 # h2 => aggregate(<<h1, h2>>) # aggregate(<<h2, h1>>)
    /\ aggregate(<<>>) = DigestPart(<<>>, 0, 64)
    /\ pipe = "Completed" =>
          LET v == response.v.verifiedChunks
              data_hash == response.v.attestation.data_hash
          IN  /\ v = <<>> => data_hash = DigestPart(<<>>, 0, 64)
              /\ (Len(v) >= 2 /\ v[1] # v[2]) =>
                    data_hash # aggregate(<<v[2], v[1]>> \o SubSeq(v, 3, Len(v)))

\* a completed run whose two verified digests are distinct
C14_Witness ==
    /\ pipe = "Completed"
    /\ Len(response.v.verifiedChunks) = 2
    /\ response.v.verifiedChunks[1] # response.v.verifiedChunks[2]

\* a completed run that aggregated the empty list
C14_WitnessEmpty ==
    /\ pipe = "Completed"
    /\ response.v.verifiedChunks = <<>>
    /\ response.v.failedChunks # <<>>
    /\ response.v.attestation.data_hash = DigestPart(<<>>, 0, 64)

\* the byte stream of a list of digest strings, each of them one digest
DigestBytes(hashes) == [i \in DOMAIN hashes |-> hashes[i][1]]

\* C15: every pipeline run calls the attestation provider exactly once: the call is made
\* by the step that starts the run, after the chunk loop and the aggregate, and no other
\* call is made until the run is over, also when the call fails: a Failed run made one
\* request.  The request carries the aggregate hash, the verified-digest list and the
\* quest id of the task of that run.
C15_AttestedOnce ==
    /\ [][attest_calls' # attest_calls =>
            /\ attest_calls' = attest_calls + 1
            /\ pc = "read" /\ nread' = nread + 1
            /\ pipe = "Idle" /\ pipe' \in {"AttestationRequested", "Completed"}]_vars
    /\ [][(pipe = "Idle" /\ pipe' # "Idle") => attest_calls' = attest_calls + 1]_vars
    /\ [][pipe # "Idle" => attest_calls' = attest_calls]_vars
    /\ [](pipe = "AttestationRequested" =>
            /\ Len(tee.v.verified_chunks) + Len(tee.v.failed_chunks) = Len(CurTask.data)
            /\ tee.v.aggregate_hash = DigestPart(DigestBytes(tee.v.verified_chunks), 0, 64)
            /\ request.some
            /\ request.v.operation = Str("verify_data_integrity")
            /\ request.v.dataHash = tee.v.aggregate_hash
            /\ request.v.verifiedHashes = tee.v.verified_chunks
            /\ request.v.questId = QuestIdOfMsg)
    /\ [](pipe = "Failed" => (reply.some /\ request = None /\ attest_calls >= 1))

\* the second run of a session failed after its one request
C15_Witness ==
    /\ pipe = "Failed"
    /\ nread = 2
    /\ attest_calls = 2
    /\ Len(wire) = 2

\* the loop is at read.next() and the message written last is a status "error" outcome
AfterError ==
    /\ pc = "read"
    /\ wire[Len(wire)].m.type = Str("task_result")
    /\ wire[Len(wire)].m.status = Str("error")

\* C16: a failed attestation is recovered at the task level.  Writing the "error"
\* outcome of a Failed run leaves run() in the loop at read.next(), not returned, with
\* nothing of the run retained; a ping read after it is answered with the pong and a
\* verify_task read after it starts a run whose lists, aggregate and attestation request
\* are those of the new task alone, with one new provider call.
C16_ErrorRecovered ==
    /\ [][(pc = "write" /\ pipe = "Failed" /\ wire' # wire) =>
            /\ pc' = "read" /\ ret' = "none"
            /\ wire' = Append(wire, [m |-> [type |-> Str("task_result"), agentId |-> agent_id,
                                            status |-> Str("error")],
                                     cause |-> nread])
            /\ pipe' = "Idle" /\ tee' = None /\ request' = None /\ reply' = None
            /\ response' = None]_vars
    /\ [][(AfterError /\ nread' = nread + 1 /\ msg' = PingFrame) =>
            (response' = Some(PongMessage) /\ pc' = "write" /\ pipe' = "Idle"
             /\ attest_calls' = attest_calls)]_vars
    /\ [][(AfterError /\ nread' = nread + 1 /\ msg'.frame = "Text" /\ msg' # PingFrame) =>
            /\ pipe' = "AttestationRequested" /\ pc' = "attest"
            /\ tee' = Some(Locals(TaskOf(msg'.text)))
            /\ \E now \in Times :
                  request' = Some(Payload(Locals(TaskOf(msg'.text)).aggregate_hash,
                                          Locals(TaskOf(msg'.text)).verified_chunks,
                                          TaskOf(msg'.text).quest_id, now))
            /\ attest_calls' = attest_calls + 1
            /\ response' = None /\ reply' = None]_vars

\* a task answered "verified" right after the "error" outcome of a failed one
C16_Witness ==
    /\ Len(wire) = 3
    /\ wire[2].m.type = Str("task_result")
    /\ wire[2].m.status = Str("error")
    /\ wire[2].cause = 1
    /\ wire[3].m.type = Str("task_result")
    /\ wire[3].m.status = Str("verified")
    /\ wire[3].cause = 2
    /\ pc = "read"

\* a ping answered right after the "error" outcome of a failed task
C16_WitnessPing ==
    /\ Len(wire) = 3
    /\ wire[2].m.type = Str("task_result")
    /\ wire[2].m.status = Str("error")
    /\ wire[3].m = PongMessage

\* C17 as claimed: every provider response that is not a success, a well-formed
\* attestation whose success flag is false included, ends the run Failed with a status
\* "error" outcome, and a "verified" or "partial" outcome is only built from an
\* attestation whose success flag is true.
C17_UnsuccessfulIsFailed ==
    /\ (reply.some /\ (reply.v.kind \in ErrorKinds \/ ~reply.v.body.success)) =>
          (pipe = "Failed" /\ response.v.status = Str("error"))
    /\ (pipe = "Completed" /\ reply.some) => reply.v.body.success

\* the claimed digests of the chunks of a task whose payload hashes to the claim, in the
\* order of the chunks
VerifiedOf(task) ==
    LET sel == SelectSeq(task.data, LAMBDA c : Blake3Hex(to_vec(c.data)) = c.hash)
    IN  [i \in DOMAIN sel |-> sel[i].hash]

\* the claimed digests of the other chunks, in the order of the chunks
FailedOf(task) ==
    LET sel == SelectSeq(task.data, LAMBDA c : Blake3Hex(to_vec(c.data)) # c.hash)
    IN  [i \in DOMAIN sel |-> sel[i].hash]

\* C18: verified_chunks and failed_chunks are the claimed digests of the matching and of
\* the non-matching chunks, each in the order of the input chunks; the aggregate hash
\* sent to the provider and reported as the attestation's data hash is the digest of the
\* verified digests in that order and of nothing else, so no failed chunk influences it.
C18_OrderKeptAggregateOfVerified ==
    /\ HasLists =>
          /\ RunLists.verified_chunks = VerifiedOf(CurTask)
          /\ RunLists.failed_chunks = FailedOf(CurTask)
    /\ pipe = "AttestationRequested" =>
          /\ tee.v.aggregate_hash = DigestPart(DigestBytes(VerifiedOf(CurTask)), 0, 64)
          /\ request.v.dataHash = DigestPart(DigestBytes(VerifiedOf(CurTask)), 0, 64)
          /\ request.v.verifiedHashes = VerifiedOf(CurTask)
    /\ pipe = "Completed" =>
          response.v.attestation.data_hash
              = DigestPart(DigestBytes(VerifiedOf(CurTask)), 0, 64)

\* a completed run over a matching chunk followed by a failing one
C18_Witness ==
    /\ pipe = "Completed"
    /\ Len(CurTask.data) = 2
    /\ Matches(CurTask, 1)
    /\ ~Matches(CurTask, 2)
    /\ response.v.attestation.data_hash = DigestPart(DigestBytes(<<CurTask.data[1].hash>>), 0, 64)

\* a run awaiting its attestation over two matching chunks, the chunk of payload D2
\* before the chunk of payload D1
C18_WitnessOrder ==
    /\ pipe = "AttestationRequested"
    /\ Len(CurTask.data) = 2
    /\ tee.v.verified_chunks = <<Blake3Hex(to_vec(D2)), Blake3Hex(to_vec(D1))>>

\* expectedHashes lists to compare a task with: none, one digest, another digest, and
\* one more string than the task has chunks
ExpectedVariants(task) ==
    {<<>>, <<Blake3Hex(to_vec(D1))>>, <<Blake3Hex(to_vec(D2))>>,
     Repeat(Str("junk"), Len(task.data) + 1)}

\* the task of the text being processed with its expectedHashes replaced by expected,
\* as handle_task deserializes it
WithExpected(expected) ==
    TaskOf(Text(TaskJson(QuestIdOfMsg, msg.text.doc.f["data"].a,
                         [i \in DOMAIN expected |-> JStr(expected[i])])))

\* C19: the outcome of a verify_task that deserializes does not depend on its
\* expectedHashes: a task that differs from it only in that list of strings, whatever
\* its values and its length, gives the same verified and failed lists, the same
\* aggregate hash and attestation request, and, with the same attestation and clock,
\* the same outcome message, score and status included.
C19_ExpectedHashesUnused ==
    HasLists =>
        \A expected \in ExpectedVariants(CurTask) :
            LET task == WithExpected(expected)
                locals == Locals(task)
            IN  /\ Dispatch(Text(TaskJson(QuestIdOfMsg, msg.text.doc.f["data"].a,
                                          [i \in DOMAIN expected |-> JStr(expected[i])])))
                      = "verify"
                /\ RunLists = [verified_chunks |-> locals.verified_chunks,
                               failed_chunks |-> locals.failed_chunks]
                /\ pipe = "AttestationRequested" =>
                      /\ tee.v = locals
                      /\ request.v = Payload(locals.aggregate_hash, locals.verified_chunks,
                                             task.quest_id, request.v.timestamp)
                /\ pipe = "Completed" =>
                      response.v = VerificationResult(task, locals, response.v.attestation,
                                                      response.v.attestation.timestamp)

\* a completed run over a matching and a failing chunk whose task lists one expected
\* hash, the digest of neither chunk's claim
C19_Witness ==
    /\ pipe = "Completed"
    /\ Len(CurTask.data) = 2
    /\ Len(CurTask.expected_hashes) = 1
    /\ CurTask.expected_hashes[1] # CurTask.data[1].hash
    /\ Len(response.v.verifiedChunks) = 1
    /\ Len(response.v.failedChunks) = 1

\* C20: a verify_task without chunks reaches the score through the guard
\* failed_chunks.is_empty(): both lists are empty, so the branch that divides by
\* task.data.len() is not taken; the provider is called once, with the digest of the
\* empty byte stream and an empty verified list, and when the attestation succeeds the
\* run completes with confidence score 100, status "verified" and both lists empty.
C20_NoChunks ==
    /\ []((HasLists /\ CurTask.data = <<>>) =>
            /\ RunLists.verified_chunks = <<>>
            /\ RunLists.failed_chunks = <<>>
            /\ attest_calls >= 1
            /\ pipe = "AttestationRequested" =>
                  /\ request.v.dataHash = DigestPart(<<>>, 0, 64)
                  /\ request.v.verifiedHashes = <<>>
            /\ pipe = "Completed" =>
                  /\ response.v.attestation.confidence_score = 100
                  /\ response.v.status = Str("verified")
                  /\ response.v.attestation.data_hash = DigestPart(<<>>, 0, 64)
                  /\ response.v.verifiedChunks = <<>>
                  /\ response.v.failedChunks = <<>>)
    /\ [][(nread' = nread + 1 /\ msg'.frame = "Text" /\ msg' # PingFrame
            /\ msg'.text.doc.f["data"].a = <<>>) =>
            (attest_calls' = attest_calls + 1
             /\ pipe' \in {"AttestationRequested", "Completed"})]_vars
    /\ [][(pipe = "AttestationRequested" /\ CurTask.data = <<>>) =>
            attest_calls' = attest_calls]_vars

\* a run over no chunks completed after the provider attested it
C20_Witness ==
    /\ ~dev_mode
    /\ pipe = "Completed"
    /\ CurTask.data = <<>>
    /\ reply.some
    /\ reply.v.body.success
    /\ response.v.attestation.confidence_score = 100

====
